---------------------------- MODULE Spec2Model ----------------------------
(***************************************************************************)
(* The Othello rules engine of src/othello: the Board state machine        *)
(* (board.py), the Disk value (disk.py) and the enumerations (_typing.py). *)
(*                                                                         *)
(* A board is the record [grid, passes, state, to_play].  grid is indexed  *)
(* grid[y][x] with 0-based indices, as in the source.  A grid cell holds   *)
(* None or the side of the Disk that occupies it.  Every method is an      *)
(* operator on a board that returns what the method returns or the         *)
(* exception it raises; every call a host can make is an action.           *)
(***************************************************************************)
EXTENDS Integers, Sequences, FiniteSets

VARIABLES grid, passes, state, to_play, ret

vars == <<grid, passes, state, to_play, ret>>

(***************************************************************************)
(* _typing.py                                                              *)
(***************************************************************************)
N == 8

\* How far outside the board the space arguments of the calls range.
Margin == 1

DARK == "DARK"
LIGHT == "LIGHT"
None == "None"
Player == {DARK, LIGHT}

NON_TERMINAL == "NON_TERMINAL"
TERMINAL == "TERMINAL"
State == {NON_TERMINAL, TERMINAL}

\* class Direction, in declaration order (the order `for direction in
\* Direction` iterates in).
Direction ==
    << "NORTH", "NORTHEAST", "EAST", "SOUTHEAST",
       "SOUTH", "SOUTHWEST", "WEST", "NORTHWEST" >>

DirectionValue ==
    [ NORTH |-> <<0, -1>>, NORTHEAST |-> <<1, -1>>, EAST |-> <<1, 0>>,
      SOUTHEAST |-> <<1, 1>>, SOUTH |-> <<0, 1>>, SOUTHWEST |-> <<-1, 1>>,
      WEST |-> <<-1, 0>>, NORTHWEST |-> <<-1, -1>> ]

Directions == {Direction[i] : i \in 1..Len(Direction)}

(***************************************************************************)
(* What a call produces: a returned value, or a raised exception.          *)
(***************************************************************************)
NoExc == "none"
Return(v) == [exc |-> NoExc, val |-> v]
Raise(e) == [exc |-> e, val |-> None]

\* The spaces of the board, and the space arguments the calls are tried on.
Coords == 0..(N - 1)
Spaces == Coords \X Coords
ArgCoords == (0 - Margin)..(N - 1 + Margin)
ArgSpaces == ArgCoords \X ArgCoords

\* Python's list indexing of a list of length N: a negative index counts from
\* the end, an index outside -N..N-1 raises IndexError.
ListIndex(i) ==
    IF i \in 0..(N - 1) THEN Return(i)
    ELSE IF i \in (0 - N)..(0 - 1) THEN Return(i + N)
    ELSE Raise("IndexError")

\* self.grid[y][x]
GridAt(g, x, y) ==
    LET iy == ListIndex(y)
        ix == ListIndex(x)
    IN  IF iy.exc # NoExc THEN iy
        ELSE IF ix.exc # NoExc THEN ix
        ELSE Return(g[iy.val][ix.val])

(***************************************************************************)
(* disk.py                                                                 *)
(***************************************************************************)
flip(side) == IF side = DARK THEN LIGHT ELSE DARK

(***************************************************************************)
(* board.py                                                                *)
(***************************************************************************)
\* InitialGrid with the two sides' disks exchanged.
InitialGrid_SidesSwapped ==
    [y \in Coords |-> [x \in Coords |->
        IF <<x, y>> \in {<<3, 3>>, <<4, 4>>} THEN LIGHT
        ELSE IF <<x, y>> \in {<<4, 3>>, <<3, 4>>} THEN DARK
        ELSE None]]

InitialGrid ==
    [y \in Coords |-> [x \in Coords |->
        IF <<x, y>> \in {<<3, 3>>, <<4, 4>>} THEN DARK
        ELSE IF <<x, y>> \in {<<4, 3>>, <<3, 4>>} THEN LIGHT
        ELSE None]]

\* Board.__init__
InitialBoard ==
    [grid |-> InitialGrid, passes |-> 0, state |-> NON_TERMINAL, to_play |-> DARK]

disc_counts(b) ==
    << Cardinality({s \in Spaces : b.grid[s[2]][s[1]] = DARK}),
       Cardinality({s \in Spaces : b.grid[s[2]][s[1]] = LIGHT}) >>

\* alternate_players leaving the player as it is.
alternate_players_KeepsPlayer(b) == b

alternate_players(b) ==
    [b EXCEPT !.to_play = IF b.to_play = DARK THEN LIGHT ELSE DARK]

\* winner without the check of the state (lines 67-68).
winner_IgnoresState(b) ==
    LET c == disc_counts(b)
    IN  IF c[1] > c[2] THEN DARK
        ELSE IF c[1] < c[2] THEN LIGHT
        ELSE None

winner(b) ==
    IF b.state = NON_TERMINAL THEN None
    ELSE LET c == disc_counts(b)
         IN  IF c[1] > c[2] THEN DARK
             ELSE IF c[1] < c[2] THEN LIGHT
             ELSE None

\* The None that score returns, as a value of the type of its tuples: the
\* tuple that holds no scores.
NoScore == <<>>

\* score giving the disc counts on a drawn or unfinished board too.
score_AlwaysATuple(b) ==
    LET c == disc_counts(b)
        w == winner(b)
    IN  IF w = DARK THEN <<64 - c[2], c[2]>>
        ELSE IF w = LIGHT THEN <<c[1], 64 - c[2]>>
        ELSE <<c[1], c[2]>>

score(b) ==
    LET c == disc_counts(b)
        w == winner(b)
    IN  IF w = DARK THEN <<64 - c[2], c[2]>>
        ELSE IF w = LIGHT THEN <<c[1], 64 - c[2]>>
        ELSE NoScore

\* ChainWalk keeping the chain when the walk runs off the board.
RECURSIVE ChainWalk_KeepsChainAtEdge(_, _, _, _, _)
ChainWalk_KeepsChainAtEdge(b, chain, cur_x, cur_y, dir) ==
    IF ~(cur_x \in 0..(N - 1) /\ cur_y \in 0..(N - 1)) THEN chain
    ELSE LET disk == b.grid[cur_y][cur_x]
         IN  IF disk = None THEN <<>>
             ELSE IF disk = b.to_play THEN chain
             ELSE ChainWalk_KeepsChainAtEdge(b, Append(chain, <<cur_x, cur_y>>),
                                             cur_x + dir[1], cur_y + dir[2], dir)

\* The while loop of get_chain (lines 116-127): chain holds the spaces
\* accumulated so far, (cur_x, cur_y) is the cell to look at next.
RECURSIVE ChainWalk(_, _, _, _, _)
ChainWalk(b, chain, cur_x, cur_y, dir) ==
    IF ~(cur_x \in 0..(N - 1) /\ cur_y \in 0..(N - 1)) THEN <<>>
    ELSE LET disk == b.grid[cur_y][cur_x]
         IN  IF disk = None THEN <<>>
             ELSE IF disk = b.to_play THEN chain
             ELSE ChainWalk(b, Append(chain, <<cur_x, cur_y>>),
                            cur_x + dir[1], cur_y + dir[2], dir)

get_chain(b, space, direction) ==
    LET x == space[1]
        y == space[2]
        anchor == GridAt(b.grid, x, y)
    IN  IF anchor.exc # NoExc THEN anchor
        ELSE IF anchor.val = None \/ anchor.val # b.to_play
        THEN Raise("UnownedSpaceError")
        ELSE LET dir == DirectionValue[direction]
                 cur_x == x + dir[1]
                 cur_y == y + dir[2]
             IN  IF ~(cur_x \in 0..(N - 1) /\ cur_y \in 0..(N - 1))
                 THEN Return(<<>>)
                 ELSE LET disk == b.grid[cur_y][cur_x]
                      IN  IF disk = None THEN Return(<<>>)
                          ELSE IF disk = b.to_play THEN Return(<<>>)
                          ELSE Return(ChainWalk(b, << <<cur_x, cur_y>> >>,
                                                cur_x + dir[1], cur_y + dir[2], dir))

\* The loop of is_legal over the directions, from the i-th on.
RECURSIVE IsLegalFrom(_, _, _)
IsLegalFrom(b, space, i) ==
    IF i > Len(Direction) THEN Return(FALSE)
    ELSE LET c == get_chain(b, space, Direction[i])
         IN  IF c.exc # NoExc THEN c
             ELSE IF c.val # <<>> THEN Return(TRUE)
             ELSE IsLegalFrom(b, space, i + 1)

is_legal(b, space) ==
    IF b.state = TERMINAL THEN Return(FALSE)
    ELSE LET cell == GridAt(b.grid, space[1], space[2])
         IN  IF cell.exc # NoExc THEN cell
             ELSE IF cell.val # None THEN Return(FALSE)
             ELSE IsLegalFrom(b, space, 1)

\* The order in which the double loop of legal_spaces visits the spaces:
\* x outer, y inner, both ascending.
SpaceOrder == [k \in 1..(N * N) |-> <<(k - 1) \div N, (k - 1) % N>>]

\* legal_spaces taking an is_legal call that raises for a space that is not
\* legal.
legal_spaces_SwallowsErrors(b) ==
    IF b.state = TERMINAL THEN Return(<<>>)
    ELSE Return(SelectSeq(SpaceOrder,
                          LAMBDA space : /\ is_legal(b, space).exc = NoExc
                                         /\ is_legal(b, space).val))

\* The double loop of legal_spaces: the first is_legal call that raises ends
\* the loop with its exception; otherwise the spaces is_legal accepts are
\* listed in loop order.
legal_spaces(b) ==
    IF b.state = TERMINAL THEN Return(<<>>)
    ELSE LET raising == {k \in 1..(N * N) : is_legal(b, SpaceOrder[k]).exc # NoExc}
         IN  IF raising # {}
             THEN is_legal(b, SpaceOrder[CHOOSE k \in raising :
                                            \A j \in raising : k <= j])
             ELSE Return(SelectSeq(SpaceOrder,
                                   LAMBDA space : is_legal(b, space).val))

\* What play leaves behind: the exception it raised (or none) and the board
\* as the call left it.
Outcome(e, b) == [exc |-> e, board |-> b]

\* The loop of lines 169-171 appending every chain twice.
RECURSIVE ExtendChains_ChainTwice(_, _, _, _)
ExtendChains_ChainTwice(b, space, i, spaces) ==
    IF i > Len(Direction) THEN Return(spaces)
    ELSE LET c == get_chain(b, space, Direction[i])
         IN  IF c.exc # NoExc THEN c
             ELSE ExtendChains_ChainTwice(b, space, i + 1,
                                          spaces \o c.val \o c.val)

\* Lines 169-171 of play: the chains of the directions from the i-th on,
\* appended to spaces.
RECURSIVE ExtendChains(_, _, _, _)
ExtendChains(b, space, i, spaces) ==
    IF i > Len(Direction) THEN Return(spaces)
    ELSE LET c == get_chain(b, space, Direction[i])
         IN  IF c.exc # NoExc THEN c
             ELSE ExtendChains(b, space, i + 1, spaces \o c.val)

\* Lines 173-175 of play: flip the disk at each space of the list, in order
\* (a space listed twice is flipped twice).
RECURSIVE FlipSpaces(_, _, _)
FlipSpaces(g, spaces, k) ==
    IF k > Len(spaces) THEN g
    ELSE LET i == spaces[k][1]
             j == spaces[k][2]
         IN  FlipSpaces([g EXCEPT ![j][i] = flip(g[j][i])], spaces, k + 1)

\* PlayPass without the transition to TERMINAL.
PlayPass_NeverTerminal(b) ==
    LET a == alternate_players(b)
    IN  [a EXCEPT !.passes = a.passes + 1]

\* PlayPass counting a pass twice.
PlayPass_CountsTwice(b) ==
    LET a == alternate_players(b)
        p == [a EXCEPT !.passes = a.passes + 2]
    IN  IF p.passes = 2 THEN [p EXCEPT !.state = TERMINAL] ELSE p

\* Lines 157-162 of play: the forced pass.
PlayPass(b) ==
    LET a == alternate_players(b)
        p == [a EXCEPT !.passes = a.passes + 1]
    IN  IF p.passes = 2 THEN [p EXCEPT !.state = TERMINAL] ELSE p

\* Lines 166-179 of play: the real move at a space is_legal accepted.
PlayMove(b, space) ==
    LET x == ListIndex(space[1]).val
        y == ListIndex(space[2]).val
        placed == [b EXCEPT !.grid[y][x] = b.to_play]
        spaces == ExtendChains(placed, space, 1, <<>>)
    IN  IF spaces.exc # NoExc THEN Outcome(spaces.exc, placed)
        ELSE LET flipped == [placed EXCEPT
                                !.grid = FlipSpaces(placed.grid, spaces.val, 1)]
                 a == alternate_players(flipped)
             IN  Outcome(NoExc, [a EXCEPT !.passes = 0])

\* play placing the disk before it checks anything.
play_PlacesBeforeChecking(b, space) ==
    IF b.state = TERMINAL THEN Outcome("GameOverError", b)
    ELSE LET x == ListIndex(space[1])
             y == ListIndex(space[2])
             placed == IF x.exc = NoExc /\ y.exc = NoExc
                       THEN [b EXCEPT !.grid[y.val][x.val] = b.to_play]
                       ELSE b
             ls == legal_spaces(b)
         IN  IF ls.exc # NoExc THEN Outcome(ls.exc, placed)
             ELSE IF ls.val = <<>> THEN Outcome(NoExc, PlayPass(b))
             ELSE LET l == is_legal(b, space)
                  IN  IF l.exc # NoExc THEN Outcome(l.exc, placed)
                      ELSE IF ~l.val THEN Outcome("IllegalSpaceError", placed)
                      ELSE PlayMove(b, space)

\* play without the check of lines 155-156.
play_NoGameOverCheck(b, space) ==
    LET ls == legal_spaces(b)
    IN  IF ls.exc # NoExc THEN Outcome(ls.exc, b)
        ELSE IF ls.val = <<>> THEN Outcome(NoExc, PlayPass(b))
        ELSE LET l == is_legal(b, space)
             IN  IF l.exc # NoExc THEN Outcome(l.exc, b)
                 ELSE IF ~l.val THEN Outcome("IllegalSpaceError", b)
                 ELSE PlayMove(b, space)

play(b, space) ==
    IF b.state = TERMINAL THEN Outcome("GameOverError", b)
    ELSE LET ls == legal_spaces(b)
         IN  IF ls.exc # NoExc THEN Outcome(ls.exc, b)
             ELSE IF ls.val = <<>> THEN Outcome(NoExc, PlayPass(b))
             ELSE LET l == is_legal(b, space)
                  IN  IF l.exc # NoExc THEN Outcome(l.exc, b)
                      ELSE IF ~l.val THEN Outcome("IllegalSpaceError", b)
                      ELSE PlayMove(b, space)

(***************************************************************************)
(* The state machine.  self is the Board object; ret is what the host      *)
(* holds from its last call: the method, its arguments, and the value      *)
(* returned or the exception raised.  The host is single-threaded: it      *)
(* makes a call, looks at what came back, and goes on.                     *)
(***************************************************************************)
self == [grid |-> grid, passes |-> passes, state |-> state, to_play |-> to_play]

NoSpace == <<>>
NoDirection == "-"

Called(op, space, direction, r) ==
    [op |-> op, space |-> space, direction |-> direction,
     exc |-> r.exc, val |-> r.val]

Ready == [op |-> "ready", space |-> NoSpace, direction |-> NoDirection,
          exc |-> NoExc, val |-> None]

Idle == ret.op \in {"ready", "__init__", "setup"}

SetBoard(b) ==
    /\ grid' = b.grid
    /\ passes' = b.passes
    /\ state' = b.state
    /\ to_play' = b.to_play

Unchanged == UNCHANGED <<grid, passes, state, to_play>>

DiscCounts ==
    /\ Idle
    /\ ret' = Called("disc_counts", NoSpace, NoDirection, Return(disc_counts(self)))
    /\ Unchanged

\* legal_spaces handing the turn to the other player as it returns.
LegalSpaces_AlternatesPlayers ==
    /\ Idle
    /\ ret' = Called("legal_spaces", NoSpace, NoDirection, legal_spaces(self))
    /\ SetBoard(alternate_players(self))

LegalSpaces ==
    /\ Idle
    /\ ret' = Called("legal_spaces", NoSpace, NoDirection, legal_spaces(self))
    /\ Unchanged

Score ==
    /\ Idle
    /\ ret' = Called("score", NoSpace, NoDirection, Return(score(self)))
    /\ Unchanged

Winner ==
    /\ Idle
    /\ ret' = Called("winner", NoSpace, NoDirection, Return(winner(self)))
    /\ Unchanged

GetChain(space, direction) ==
    /\ Idle
    /\ ret' = Called("get_chain", space, direction, get_chain(self, space, direction))
    /\ Unchanged

IsLegal(space) ==
    /\ Idle
    /\ ret' = Called("is_legal", space, NoDirection, is_legal(self, space))
    /\ Unchanged

Play(space) ==
    /\ Idle
    /\ LET o == play(self, space)
       IN  /\ SetBoard(o.board)
           /\ ret' = Called("play", space, NoDirection,
                            IF o.exc = NoExc THEN Return("self") ELSE Raise(o.exc))

\* The host has looked at what its call produced and is ready for the next.
Resume ==
    /\ ~Idle
    /\ ret' = Ready
    /\ Unchanged

Next ==
    \/ DiscCounts
    \/ LegalSpaces
    \/ Score
    \/ Winner
    \/ \E space \in ArgSpaces : \E direction \in Directions : GetChain(space, direction)
    \/ \E space \in ArgSpaces : IsLegal(space)
    \/ \E space \in ArgSpaces : Play(space)
    \/ Resume

Init ==
    /\ grid = InitialBoard.grid
    /\ passes = InitialBoard.passes
    /\ state = InitialBoard.state
    /\ to_play = InitialBoard.to_play
    /\ ret = Called("__init__", NoSpace, NoDirection, Return(None))

Spec == Init /\ [][Next]_vars

(***************************************************************************)
(* Positions of legal games.  grid, passes, state and to_play are plain    *)
(* attributes of the Board, and a host or a test can set a position up     *)
(* through them.  Each position below is a position of a legal game of     *)
(* Othello that is not over, with the player to move and the pass count    *)
(* the game has there; rows are listed from y = 0, cells from x = 0.       *)
(***************************************************************************)
Position(rows, p, n) ==
    [grid |-> [y \in Coords |-> [x \in Coords |-> rows[y + 1][x + 1]]],
     passes |-> n, state |-> NON_TERMINAL, to_play |-> p]

\* A position of the middle game: both sides have moves.
\* Reached from the initial position by the game (x,y), Dark first:
\*   (3,5) (4,5) (5,2) (2,4) (1,3) (6,1) (5,4) (6,5) (6,4) (2,5) (4,2)
\*   (1,4) (6,6) (0,2)
PositionMidGame ==
    LET D == DARK
        L == LIGHT
        E == None
    IN  Position(
         << <<E, E, E, E, E, E, E, E>>,
            <<E, E, E, E, E, E, L, E>>,
            <<L, E, E, E, D, L, E, E>>,
            <<E, L, E, D, D, E, E, E>>,
            <<E, L, L, L, D, D, D, E>>,
            <<E, E, L, L, L, E, D, E>>,
            <<E, E, E, E, E, E, D, E>>,
            <<E, E, E, E, E, E, E, E>> >>,
         DARK, 0)

\* Dark has no capturing move, Light has: Dark must pass.
\* Reached from the initial position by the game (x,y), Dark first:
\*   (2,4) (2,5) (2,6) (1,6) (5,3) (2,7) (0,7) (0,5)
PositionMustPass ==
    LET D == DARK
        L == LIGHT
        E == None
    IN  Position(
         << <<E, E, E, E, E, E, E, E>>,
            <<E, E, E, E, E, E, E, E>>,
            <<E, E, E, E, E, E, E, E>>,
            <<E, E, E, D, D, D, E, E>>,
            <<E, E, D, D, D, E, E, E>>,
            <<L, E, D, E, E, E, E, E>>,
            <<E, L, L, E, E, E, E, E>>,
            <<D, E, L, E, E, E, E, E>> >>,
         DARK, 0)

\* The same grid after Dark passed: Light to play, one pass counted.
\* Reached from the initial position by the game (x,y), Dark first:
\*   (2,4) (2,5) (2,6) (1,6) (5,3) (2,7) (0,7) (0,5) pass
PositionAfterPass ==
    LET D == DARK
        L == LIGHT
        E == None
    IN  Position(
         << <<E, E, E, E, E, E, E, E>>,
            <<E, E, E, E, E, E, E, E>>,
            <<E, E, E, E, E, E, E, E>>,
            <<E, E, E, D, D, D, E, E>>,
            <<E, E, D, D, D, E, E, E>>,
            <<L, E, D, E, E, E, E, E>>,
            <<E, L, L, E, E, E, E, E>>,
            <<D, E, L, E, E, E, E, E>> >>,
         LIGHT, 1)

\* Light has no disk left: neither side has a capturing move, 51 spaces are empty.
\* Reached from the initial position by the game (x,y), Dark first:
\*   (5,3) (5,4) (3,5) (3,2) (3,1) (4,5) (5,5) (6,3) (7,3)
PositionWipeout ==
    LET D == DARK
        L == LIGHT
        E == None
    IN  Position(
         << <<E, E, E, E, E, E, E, E>>,
            <<E, E, E, D, E, E, E, E>>,
            <<E, E, E, D, E, E, E, E>>,
            <<E, E, E, D, D, D, D, D>>,
            <<E, E, E, D, D, D, E, E>>,
            <<E, E, E, D, D, D, E, E>>,
            <<E, E, E, E, E, E, E, E>>,
            <<E, E, E, E, E, E, E, E>> >>,
         LIGHT, 0)

\* The full board of a game Dark wins 38 to 26.
\* Reached from the initial position by the game (x,y), Dark first:
\*   (3,5) (4,5) (5,5) (4,6) (5,2) (6,5) (4,7) (3,7) (7,5) (5,7) pass (6,4)
\*   (6,3) (2,2) (5,3) (7,3) (7,4) (6,2) (6,1) (2,4) (2,3) (3,2) (4,1)
\*   (7,6) (1,4) (4,2) (5,1) (3,1) (2,6) (1,5) (2,0) (6,0) (7,0) (4,0)
\*   (3,0) (6,6) (1,3) (0,3) (7,2) (0,5) (0,4) (1,1) (0,6) (1,0) (6,7)
\*   (2,5) (1,7) (2,7) (5,0) (7,1) (7,7) (1,2) (1,6) (3,6) (0,2) (0,1)
\*   (5,4) (0,7) (5,6) (2,1) (0,0)
PositionFullDark ==
    LET D == DARK
        L == LIGHT
        E == None
    IN  Position(
         << <<D, D, D, D, D, D, D, D>>,
            <<L, D, L, D, D, D, D, D>>,
            <<L, L, D, D, L, D, L, D>>,
            <<L, L, L, D, D, D, D, D>>,
            <<L, L, L, D, D, D, D, D>>,
            <<L, D, L, L, D, D, D, D>>,
            <<L, L, L, L, L, D, D, D>>,
            <<L, L, L, L, L, L, D, D>> >>,
         LIGHT, 0)

\* The full board of a game Light wins 42 to 22.
\* Reached from the initial position by the game (x,y), Dark first:
\*   (5,3) (5,4) (2,5) (4,2) (3,5) (6,3) (6,2) (4,5) (6,4) (2,3) (3,6)
\*   (7,5) (4,1) (2,6) (5,2) (6,1) (7,0) (2,4) (1,4) (3,7) (4,6) (3,1)
\*   (3,2) (0,3) (2,7) (1,3) (2,0) (5,6) (7,2) (5,5) (6,5) (7,3) (0,5)
\*   (1,5) (7,4) (3,0) (0,4) (1,7) (5,7) (6,6) (1,6) (5,1) (6,7) (1,0)
\*   (4,7) (7,1) (2,2) (7,7) (6,0) (0,2) (4,0) (7,6) (1,2) (2,1) (0,1)
\*   (0,7) (5,0) (0,6) (1,1) (0,0)
PositionFullLight ==
    LET D == DARK
        L == LIGHT
        E == None
    IN  Position(
         << <<L, L, L, L, D, D, D, D>>,
            <<L, L, D, D, D, D, L, L>>,
            <<L, D, L, D, D, D, D, L>>,
            <<L, D, D, L, L, D, D, L>>,
            <<L, D, L, L, L, D, D, L>>,
            <<L, L, L, L, D, L, L, L>>,
            <<L, L, L, D, L, L, L, L>>,
            <<L, L, L, L, L, L, L, L>> >>,
         DARK, 0)

\* The full board of a drawn game, 32 to 32.
\* Reached from the initial position by the game (x,y), Dark first:
\*   (3,5) (4,5) (5,2) (2,4) (1,3) (6,1) (5,4) (6,5) (6,4) (2,5) (4,2)
\*   (1,4) (6,6) (0,2) (6,2) (5,3) (7,0) (2,2) (6,3) (7,1) (4,6) (5,5)
\*   (1,1) (6,7) (0,4) (0,0) (1,6) (5,7) (2,3) (4,1) (5,1) (3,2) (2,1)
\*   (5,0) (6,0) (4,0) (7,3) (1,2) (3,1) (1,0) (7,5) (1,5) (3,7) (3,6)
\*   (0,1) (7,2) (0,5) (1,7) (2,7) (2,0) (7,4) (3,0) (7,7) (5,6) (4,7)
\*   (7,6) (0,6) (2,6) (0,7) pass (0,3)
PositionFullDraw ==
    LET D == DARK
        L == LIGHT
        E == None
    IN  Position(
         << <<L, L, L, L, L, L, D, D>>,
            <<D, L, L, L, D, D, L, L>>,
            <<D, L, L, L, D, D, L, L>>,
            <<D, D, D, D, D, D, D, L>>,
            <<D, D, L, L, L, L, D, L>>,
            <<D, D, D, L, L, L, L, L>>,
            <<D, D, L, D, L, L, L, L>>,
            <<D, D, D, D, D, D, D, D>> >>,
         LIGHT, 0)

Positions ==
    {InitialBoard, PositionMidGame, PositionMustPass, PositionAfterPass,
     PositionWipeout, PositionFullDark, PositionFullLight, PositionFullDraw}

InitPositions ==
    /\ \E b \in Positions :
          /\ grid = b.grid
          /\ passes = b.passes
          /\ state = b.state
          /\ to_play = b.to_play
    /\ ret = Called("setup", NoSpace, NoDirection, Return(None))

SpecPositions == InitPositions /\ [][Next]_vars


(***************************************************************************)
(* The rules the claims speak of, stated on a grid g for a player p.       *)
(***************************************************************************)
Step(space, direction, k) ==
    << space[1] + k * DirectionValue[direction][1],
       space[2] + k * DirectionValue[direction][2] >>

Holds(g, space, side) == space \in Spaces /\ g[space[2]][space[1]] = side

\* A disk of p at space would close a run of n opposing disks in direction.
Closes(g, p, space, direction, n) ==
    /\ \A k \in 1..n : Holds(g, Step(space, direction, k), flip(p))
    /\ Holds(g, Step(space, direction, n + 1), p)

\* The disks a disk of p placed at space captures.
Captured(g, p, space) ==
    UNION { {Step(space, direction, k) : k \in 1..n} :
            <<direction, n>> \in {dn \in Directions \X (1..(N - 2)) :
                                    Closes(g, p, space, dn[1], dn[2])} }

\* space is empty and a disk of p there captures in at least one direction.
Capturing(g, p, space) ==
    /\ Holds(g, space, None)
    /\ \E direction \in Directions : \E n \in 1..(N - 2) :
          Closes(g, p, space, direction, n)

CapturingSpaces(g, p) == {space \in Spaces : Capturing(g, p, space)}

Occupied(g) == {space \in Spaces : g[space[2]][space[1]] # None}

Range(seq) == {seq[i] : i \in 1..Len(seq)}

\* This step is a call of play.
PlayCall == Idle /\ ret'.op = "play"

(***************************************************************************)
(* The real move of play taken on its own: lines 166-179 run on a          *)
(* Non-Terminal board at a space the current player captures from, the     *)
(* spaces the checks of lines 153-164 are documented to let through.       *)
(* Games are followed from the positions: a move is made on a position     *)
(* itself and on every later board of fewer than MaxDisks disks.           *)
(***************************************************************************)
MaxDisks == 7

RealMoveAt(space) ==
    /\ Idle
    /\ state = NON_TERMINAL
    /\ space \in CapturingSpaces(grid, to_play)
    /\ self \in Positions \/ Cardinality(Occupied(grid)) < MaxDisks
    /\ LET o == PlayMove(self, space)
       IN  /\ SetBoard(o.board)
           /\ ret' = Called("play", space, NoDirection,
                            IF o.exc = NoExc THEN Return("self") ELSE Raise(o.exc))

NextMoves ==
    \/ \E space \in Spaces : RealMoveAt(space)
    \/ Resume

SpecMoves == InitPositions /\ [][NextMoves]_vars

(***************************************************************************)
(* The claims.                                                             *)
(***************************************************************************)

\* C1: a freshly constructed Board is the standard starting position: Dark
\* at (3,3) and (4,4), Light at (3,4) and (4,3), the 60 other spaces empty,
\* Dark to play, Non-Terminal, no pass counted, disc_counts = (2,2).
C1_FreshBoard ==
    ret.op = "__init__" =>
        /\ \A space \in Spaces :
              grid[space[2]][space[1]] =
                  IF space \in {<<3, 3>>, <<4, 4>>} THEN DARK
                  ELSE IF space \in {<<3, 4>>, <<4, 3>>} THEN LIGHT
                  ELSE None
        /\ Cardinality({space \in Spaces : grid[space[2]][space[1]] = None}) = 60
        /\ to_play = DARK
        /\ state = NON_TERMINAL
        /\ passes = 0
        /\ disc_counts(self) = <<2, 2>>

C1_Witness ==
    /\ ret.op = "__init__"
    /\ grid[3][3] = DARK /\ grid[3][4] = LIGHT
    /\ disc_counts(self) = <<2, 2>>

\* C2: is_legal, legal_spaces and play, called with a space of the board,
\* never fail with UnownedSpaceError, and play fails with GameOverError or
\* IllegalSpaceError only.
C2_NoUnownedSpaceError ==
    /\ (ret.op \in {"is_legal", "play"} /\ ret.space \in Spaces)
           => ret.exc # "UnownedSpaceError"
    /\ ret.op = "legal_spaces" => ret.exc # "UnownedSpaceError"
    /\ (ret.op = "play" /\ ret.space \in Spaces)
           => ret.exc \in {NoExc, "GameOverError", "IllegalSpaceError"}

\* C3: on the initial board, Dark to play, legal_spaces returns the spaces
\* (2,3), (3,2), (4,5) and (5,4), and no others.
C3_InitialLegalSpaces ==
    (ret.op = "legal_spaces" /\ self = InitialBoard) =>
        /\ ret.exc = NoExc
        /\ Range(ret.val) = {<<2, 3>>, <<3, 2>>, <<4, 5>>, <<5, 4>>}

\* C4: is_legal(space), for a space of the board, returns false on a Terminal
\* board or an occupied space, and otherwise true exactly when a disk of the
\* current player at space captures in some direction; legal_spaces returns
\* exactly those spaces, and the empty list on a Terminal board.
C4_IsLegalIsTheCaptureRule ==
    /\ (ret.op = "is_legal" /\ ret.space \in Spaces) =>
          /\ ret.exc = NoExc
          /\ ret.val = (state # TERMINAL /\ Capturing(grid, to_play, ret.space))
    /\ ret.op = "legal_spaces" =>
          /\ ret.exc = NoExc
          /\ Range(ret.val) = IF state = TERMINAL THEN {}
                              ELSE CapturingSpaces(grid, to_play)

\* C5: play(space) on a Non-Terminal board, at a space that is legal for the
\* current player, places the player's disk there, flips the captured disks,
\* alternates to_play and sets passes to 0; the mover gains 1 + captured
\* disks, the opponent loses captured disks, and captured >= 1.
C5_RealMove ==
    [][ (PlayCall /\ state = NON_TERMINAL
            /\ Capturing(grid, to_play, ret'.space)) =>
          LET captured == Captured(grid, to_play, ret'.space)
              mine == IF to_play = DARK THEN 1 ELSE 2
              theirs == IF to_play = DARK THEN 2 ELSE 1
          IN  /\ ret'.exc = NoExc
              /\ \A space \in Spaces :
                    grid'[space[2]][space[1]] =
                        IF space = ret'.space \/ space \in captured
                        THEN to_play
                        ELSE grid[space[2]][space[1]]
              /\ to_play' = flip(to_play)
              /\ passes' = 0
              /\ Cardinality(captured) >= 1
              /\ disc_counts(self')[mine]
                     = disc_counts(self)[mine] + 1 + Cardinality(captured)
              /\ disc_counts(self')[theirs]
                     = disc_counts(self)[theirs] - Cardinality(captured)
      ]_vars

\* C6: on a Non-Terminal board where the current player has no legal space,
\* play(space) succeeds as a pass whatever the space: the grid is unchanged,
\* to_play alternates, passes increases by 1, and the second consecutive
\* pass leaves state = Terminal.
C6_ForcedPass ==
    [][ (PlayCall /\ state = NON_TERMINAL
            /\ CapturingSpaces(grid, to_play) = {}) =>
          /\ ret'.exc = NoExc
          /\ grid' = grid
          /\ to_play' = flip(to_play)
          /\ passes' = passes + 1
          /\ (passes' = 2 => state' = TERMINAL)
      ]_vars

\* C7: on a Terminal board every play(space) fails with GameOverError and
\* leaves grid, to_play, passes and state unchanged.
C7_GameOver ==
    [][ (PlayCall /\ state = TERMINAL) =>
          /\ ret'.exc = "GameOverError"
          /\ UNCHANGED <<grid, to_play, passes, state>>
      ]_vars

C7_Witness ==
    state = TERMINAL /\ ret.op = "play" /\ ret.exc = "GameOverError"

\* C8: on a Non-Terminal board where the current player has a legal space,
\* play(space) at a space that is occupied, off the board or captures nothing
\* fails with IllegalSpaceError and leaves grid, to_play, passes and state
\* unchanged.
C8_IllegalSpace ==
    [][ (PlayCall /\ state = NON_TERMINAL
            /\ CapturingSpaces(grid, to_play) # {}
            /\ ~Capturing(grid, to_play, ret'.space)) =>
          /\ ret'.exc = "IllegalSpaceError"
          /\ UNCHANGED <<grid, to_play, passes, state>>
      ]_vars

\* C9: in every reachable state, state = Terminal exactly when passes = 2,
\* and a Terminal board never becomes Non-Terminal again.
C9_TerminalIffTwoPasses ==
    /\ [](state = TERMINAL <=> passes = 2)
    /\ [][state = TERMINAL => state' = TERMINAL]_vars

\* The second of two consecutive passes has just made the board Terminal.
C9_Witness ==
    state = TERMINAL /\ passes = 2 /\ ret.op = "play" /\ ret.exc = NoExc

\* C10: passes is always 0, 1 or 2; it is 0 right after every real move; and
\* it is incremented only by a play call made when the current player has no
\* legal move, and then by exactly 1.
C10_PassCounter ==
    /\ [](passes \in {0, 1, 2})
    /\ [][ /\ (PlayCall /\ ret'.exc = NoExc /\ grid' # grid) => passes' = 0
           /\ passes' > passes =>
                 /\ passes' = passes + 1
                 /\ PlayCall
                 /\ CapturingSpaces(grid, to_play) = {}
       ]_vars

\* A play call has just counted the first pass.
C10_Witness ==
    ret.op = "play" /\ ret.exc = NoExc /\ passes = 1 /\ state = NON_TERMINAL

\* This step is a call of play that returned: a real move when the player
\* had a space to capture from, a pass when the player had none.
Completed == PlayCall /\ ret'.exc = NoExc
RealMove == Completed /\ CapturingSpaces(grid, to_play) # {}
Pass == Completed /\ CapturingSpaces(grid, to_play) = {}

Queries == {"legal_spaces", "is_legal", "disc_counts", "winner", "score"}


C12_OccupancyMonotonic ==
    /\ [](disc_counts(self)[1] + disc_counts(self)[2] <= 64)
    /\ [][ /\ Occupied(grid) \subseteq Occupied(grid')
           /\ RealMove =>
                 Cardinality(Occupied(grid')) = Cardinality(Occupied(grid)) + 1
           /\ (PlayCall /\ ~RealMove) =>
                 Cardinality(Occupied(grid')) = Cardinality(Occupied(grid))
       ]_vars

\* A play call has failed on a board that has both occupied and empty spaces.
C12_Witness ==
    /\ ret.op = "play" /\ ret.exc # NoExc
    /\ Cardinality(Occupied(grid)) \in 5..63

\* C13: for an anchor space occupied by the current player, get_chain returns
\* the empty list or the consecutive spaces from one step past the anchor,
\* all on the board and held by the opponent, followed at once by a disk of
\* the current player on the board.
C13_ChainIsAClosedRun ==
    (ret.op = "get_chain" /\ Holds(grid, ret.space, to_play)) =>
        /\ ret.exc = NoExc
        /\ \/ ret.val = <<>>
           \/ /\ Closes(grid, to_play, ret.space, ret.direction, Len(ret.val))
              /\ \A k \in 1..Len(ret.val) :
                    ret.val[k] = Step(ret.space, ret.direction, k)

\* get_chain has returned a chain of three disks.
C13_Witness ==
    /\ ret.op = "get_chain" /\ ret.exc = NoExc
    /\ Holds(grid, ret.space, to_play)
    /\ Len(ret.val) = 3

\* C14: winner is None on a Non-Terminal board; on a Terminal board it is
\* Dark with strictly more Dark disks, Light with strictly more Light disks,
\* None with equal counts.
C14_Winner ==
    ret.op = "winner" =>
        LET dark == Cardinality({space \in Spaces : Holds(grid, space, DARK)})
            light == Cardinality({space \in Spaces : Holds(grid, space, LIGHT)})
        IN  /\ ret.exc = NoExc
            /\ state = NON_TERMINAL => ret.val = None
            /\ (state = TERMINAL /\ dark > light) => ret.val = DARK
            /\ (state = TERMINAL /\ dark < light) => ret.val = LIGHT
            /\ (state = TERMINAL /\ dark = light) => ret.val = None

\* winner has named Light on a Terminal board.
C14_Witness ==
    ret.op = "winner" /\ state = TERMINAL /\ ret.val = LIGHT

\* C15: on a Terminal board with a winner, score returns (dark_score,
\* light_score) where the winner's score is 64 minus the other side's disc
\* count and the loser's score is the loser's own disc count, whichever side
\* wins.
C15_ScoreOfTheWinner ==
    (ret.op = "score" /\ state = TERMINAL) =>
        LET dark == Cardinality({space \in Spaces : Holds(grid, space, DARK)})
            light == Cardinality({space \in Spaces : Holds(grid, space, LIGHT)})
        IN  /\ dark > light => ret.val = <<64 - light, light>>
            /\ light > dark => ret.val = <<dark, 64 - dark>>

Variant(g, n) == 2 * (64 - Cardinality(Occupied(g))) - n

\* This step is a call of play as a game makes it: with a space the current
\* player captures from whenever there is one, with any space otherwise.
GameCall ==
    /\ PlayCall
    /\ CapturingSpaces(grid, to_play) # {} =>
           ret'.space \in CapturingSpaces(grid, to_play)

\* C17: a game played from the initial board by calling play again and
\* again, with a legal space whenever the current player has one, reaches
\* state = Terminal after finitely many calls and at most 60 real moves:
\* on a Non-Terminal board every such call is a real move or a pass, so it
\* lowers the variant, which starts at 120 and is never negative, and a
\* real move fills one of the 60 free spaces.
C17_GameEnds ==
    /\ [](Variant(grid, passes) \in 0..120)
    /\ [][ (GameCall /\ state = NON_TERMINAL) =>
               /\ ret'.exc = NoExc
               /\ Variant(grid', passes') < Variant(grid, passes) ]_vars

ChainsOf(g, p, space) ==
    LET placed == [grid |-> [g EXCEPT ![space[2]][space[1]] = p],
                   passes |-> 0, state |-> NON_TERMINAL, to_play |-> p]
    IN  [direction \in Directions |-> get_chain(placed, space, direction)]

C20_TerminalHasNoMove ==
    state = TERMINAL =>
        /\ CapturingSpaces(grid, DARK) = {}
        /\ CapturingSpaces(grid, LIGHT) = {}

\* The game on the full board of 38 Dark and 26 Light disks has ended.
C20_Witness ==
    /\ state = TERMINAL
    /\ Occupied(grid) = Spaces
    /\ disc_counts(self) = <<38, 26>>

=============================================================================
